---- MODULE Spec2Model ----
(***************************************************************************)
(* Tenant-isolated authorization layer of the sales CRM: session tokens    *)
(* (src/lib/auth.ts), the permission model, tenant-scoped pagination and   *)
(* the audit recorder (lib/database), and the accounts handlers            *)
(* (src/app/api/accounts/route.ts).                                        *)
(***************************************************************************)
EXTENDS Integers, Sequences, FiniteSets, TLC

VARIABLES
  now,        \* the server clock, in seconds
  users,      \* the users table: id -> row
  accounts,   \* the accounts table: sequence of rows, the id is the position
  auditLog,   \* the audit_logs table: sequence of entries
  permArgs,   \* hasPermission: the arguments of the call
  permOut,    \* hasPermission: the value returned ("none" before the call)
  issued,     \* generateToken: the claims given, the time, the token returned
  decoded,    \* verifyToken: the time of the call and what it returned
  flight,     \* a request being handled step by step: where its handler stands
  listing     \* a paginate call in progress: its two store reads and its result

vars ==
  <<now, users, accounts, auditLog, permArgs, permOut, issued, decoded, flight, listing>>

NULL == "null"

(***************************************************************************)
(* Bounds of the model.                                                    *)
(***************************************************************************)
MaxAccounts == 2
MaxAudit == 2
\* JWT_EXPIRES_IN is deployment configuration (default '24h'); the model runs
\* with a lifetime of a few seconds so that expiry happens within MaxTime.
JWT_EXPIRES_IN == 1
MaxTime == JWT_EXPIRES_IN
\* How long past a token's expiry the clock of the token service runs.
PastExpiry == 2

(***************************************************************************)
(* The store's fixed content: tenants, roles, users.                       *)
(***************************************************************************)
Tenants == {"tA", "tB"}
UserIds == {"u1", "u2"}

Resources ==
  {"users", "accounts", "contacts", "leads", "opportunities", "reports",
   "settings", "activities", "tasks"}

RW == {"read", "write"}

DEFAULT_PERMISSIONS ==
  [r \in {"Super Admin", "Admin", "Sales Manager", "Sales Rep"} |->
     CASE r = "Super Admin" -> [k \in {"*"} |-> {"*"}]
       [] r = "Admin" ->
            [k \in {"users", "accounts", "contacts", "leads", "opportunities",
                    "reports", "settings"} |->
               IF k = "reports" THEN {"read"} ELSE RW]
       [] r = "Sales Manager" ->
            [k \in {"accounts", "contacts", "leads", "opportunities",
                    "activities", "tasks", "reports"} |->
               IF k = "reports" THEN {"read"} ELSE RW]
       [] OTHER ->
            [k \in {"accounts", "contacts", "leads", "opportunities",
                    "activities", "tasks"} |-> RW]]

\* A JS value that is either null/undefined or a permission object.
NullPerms == [isNull |-> TRUE, map |-> [k \in {} |-> {}]]
Perms(m) == [isNull |-> FALSE, map |-> m]

NoRole == [id |-> NULL, name |-> NULL, permissions |-> NullPerms]

RoleIds == {"rAdmin", "rRep", "rViewer"}

\* The roles table; rViewer is a tenant-defined role that grants only reports.
Roles ==
  [r \in RoleIds |->
     CASE r = "rAdmin" ->
            [id |-> r, name |-> "Admin",
             permissions |-> Perms(DEFAULT_PERMISSIONS["Admin"])]
       [] r = "rRep" ->
            [id |-> r, name |-> "Sales Rep",
             permissions |-> Perms(DEFAULT_PERMISSIONS["Sales Rep"])]
       [] OTHER ->
            [id |-> r, name |-> "Viewer",
             permissions |-> Perms([k \in {"reports"} |-> {"read"}])]]

\* bcrypt, abstractly: the hash of password p is <<"hash", p>>.
hashPassword(p) == <<"hash", p>>

verifyPassword(password, hashedPassword) == hashedPassword = hashPassword(password)

\* u1 is tenant A's admin; u2 is a user of tenant B who has been given no
\* role.  users.email is unique per tenant only, and both use the same one.
InitUsers ==
  [u \in UserIds |->
     IF u = "u1"
       THEN [id |-> u, tenantId |-> "tA", email |-> "admin@demo", roleId |-> "rAdmin",
             passwordHash |-> hashPassword("pw1"), isActive |-> TRUE, lastLogin |-> -1]
       ELSE [id |-> u, tenantId |-> "tB", email |-> "admin@demo", roleId |-> NULL,
             passwordHash |-> hashPassword("pw2"), isActive |-> TRUE, lastLogin |-> -1]]

(***************************************************************************)
(* Token service.                                                          *)
(***************************************************************************)
JWT_SECRET == "secret"

\* No claims: what a header that is no token carries, and what a failed
\* verification yields.
NoPayload == [userId |-> "", tenantId |-> "", roleId |-> "", email |-> ""]

\* The payload jwt.sign encodes: the claims given, with iat and exp added.
Timed(payload, iat, exp) ==
  [userId |-> payload.userId, tenantId |-> payload.tenantId, roleId |-> payload.roleId,
   email |-> payload.email, iat |-> iat, exp |-> exp]

\* jwt.sign(payload, secret, {expiresIn}): the encoded payload, its expiry
\* and a signature made with the secret.
Sign(payload, secret, at) ==
  [kind |-> "jwt", payload |-> Timed(payload, at, at + JWT_EXPIRES_IN),
   exp |-> at + JWT_EXPIRES_IN, sig |-> secret]

\* Faulty variant: the token is signed with the fallback secret of another build.
generateToken_OtherSecret(payload, at) == Sign(payload, "your-secret-key", at)

generateToken(payload, at) == Sign(payload, JWT_SECRET, at)

\* Faulty variant: the expiry of the token is not looked at.
ThrowingVerify_IgnoresExpiry(token, at) ==
  IF token.kind # "jwt" THEN [ok |-> FALSE, error |-> "jwt malformed", payload |-> NoPayload]
  ELSE IF token.sig # JWT_SECRET
    THEN [ok |-> FALSE, error |-> "invalid signature", payload |-> NoPayload]
  ELSE [ok |-> TRUE, error |-> NULL, payload |-> token.payload]

\* jwt.verify(token, secret): the decoded payload, or the error thrown.
ThrowingVerify(token, at) ==
  IF token.kind # "jwt" THEN [ok |-> FALSE, error |-> "jwt malformed", payload |-> NoPayload]
  ELSE IF token.sig # JWT_SECRET
    THEN [ok |-> FALSE, error |-> "invalid signature", payload |-> NoPayload]
  ELSE IF at >= token.exp
    THEN [ok |-> FALSE, error |-> "jwt expired", payload |-> NoPayload]
  ELSE [ok |-> TRUE, error |-> NULL, payload |-> token.payload]

\* Faulty variant: the library's error is rethrown as it is.
verifyToken_RethrowsCause(token, at) == ThrowingVerify(token, at)

\* verifyToken: jwt.verify, every failure rethrown as one generic error.
verifyToken(token, at) ==
  LET r == ThrowingVerify(token, at)
  IN  IF r.ok THEN r
      ELSE [ok |-> FALSE, error |-> "Invalid or expired token", payload |-> NoPayload]

(***************************************************************************)
(* Permission model.                                                       *)
(***************************************************************************)
\* Faulty variant: any '*' entry is read as "all resources" for the actions it lists.
hasPermission_StarKeyAnyAction(userPermissions, resource, action) ==
  IF userPermissions.isNull THEN FALSE
  ELSE LET p == userPermissions.map
       IN  IF "*" \in DOMAIN p /\ (action \in p["*"] \/ "*" \in p["*"]) THEN TRUE
           ELSE IF resource \notin DOMAIN p THEN FALSE
           ELSE action \in p[resource] \/ "*" \in p[resource]

\* Faulty variant: the action wildcard of a resource entry is not honoured.
hasPermission_NoActionWildcard(userPermissions, resource, action) ==
  IF userPermissions.isNull THEN FALSE
  ELSE LET p == userPermissions.map
       IN  IF "*" \in DOMAIN p /\ "*" \in p["*"] THEN TRUE
           ELSE IF resource \notin DOMAIN p THEN FALSE
           ELSE action \in p[resource]

hasPermission(userPermissions, resource, action) ==
  IF userPermissions.isNull THEN FALSE
  ELSE LET p == userPermissions.map
       IN  IF "*" \in DOMAIN p /\ "*" \in p["*"] THEN TRUE
           ELSE IF resource \notin DOMAIN p THEN FALSE
           ELSE action \in p[resource] \/ "*" \in p[resource]

\* user.role is the role row joined in by `include: { role: true }`.
canAccessResource(user, resource, action) ==
  IF user.role.id = NULL THEN FALSE
  ELSE hasPermission(user.role.permissions, resource, action)

(***************************************************************************)
(* getUserByToken: the token's claims, then the user row they name.        *)
(***************************************************************************)
NoUser ==
  [id |-> NULL, email |-> NULL, tenantId |-> NULL, roleId |-> NULL, role |-> NoRole]

roleOf(roleId) == IF roleId = NULL THEN NoRole ELSE Roles[roleId]

\* Faulty variant: the lookup is by id alone among active users.
findUserByClaims_IdOnly(table, payload) ==
  {u \in UserIds : table[u].id = payload.userId /\ table[u].isActive}

\* Faulty variant: the lookup leaves isActive out.
findUserByClaims_AnyStatus(table, payload) ==
  {u \in UserIds : table[u].id = payload.userId /\ table[u].tenantId = payload.tenantId}

\* prisma.user.findFirst({where: {id, tenantId, isActive: true}})
findUserByClaims(table, payload) ==
  {u \in UserIds : /\ table[u].id = payload.userId
                   /\ table[u].tenantId = payload.tenantId
                   /\ table[u].isActive}

\* A store error inside the try block is caught like a bad token.
getUserByToken(token, table, at, storeUp) ==
  LET v == verifyToken(token, at)
  IN  IF ~v.ok \/ ~storeUp THEN NoUser
      ELSE LET found == findUserByClaims(table, v.payload)
           IN  IF found = {} THEN NoUser
               ELSE LET u == table[CHOOSE x \in found : TRUE]
                    IN  [id |-> u.id, email |-> u.email, tenantId |-> u.tenantId,
                         roleId |-> u.roleId, role |-> roleOf(u.roleId)]

\* The Authorization header: absent, 'Bearer ' with nothing after it, or a token.
IsFalsyHeader(header) == header.kind \in {"absent", "empty"}

\* Faulty variant: the null user is passed on instead of throwing 'Invalid token'.
authenticate_NullUserPasses(header, table, at, storeUp) ==
  IF IsFalsyHeader(header) THEN [user |-> NoUser, error |-> "Authentication required"]
  ELSE [user |-> getUserByToken(header, table, at, storeUp), error |-> NULL]

\* authenticate(request): the user, or the error thrown.
authenticate(header, table, at, storeUp) ==
  IF IsFalsyHeader(header) THEN [user |-> NoUser, error |-> "Authentication required"]
  ELSE LET user == getUserByToken(header, table, at, storeUp)
       IN  IF user.id = NULL THEN [user |-> NoUser, error |-> "Invalid token"]
           ELSE [user |-> user, error |-> NULL]

(***************************************************************************)
(* JS numbers and strings, as far as the handlers use them.                *)
(***************************************************************************)
Num(n) == [nan |-> FALSE, val |-> n]
NaN == [nan |-> TRUE, val |-> 0]

\* parseInt of the query strings the model sends.
parseInt(s) ==
  CASE s = "-1" -> Num(-1)
    [] s = "0" -> Num(0)
    [] s = "1" -> Num(1)
    [] s = "2" -> Num(2)
    [] s = "3" -> Num(3)
    [] s = "10" -> Num(10)
    [] s = "101" -> Num(101)
    [] OTHER -> NaN

\* `x || d` on a number: NaN and 0 are falsy.
OrElse(x, d) == IF x.nan \/ x.val = 0 THEN d ELSE x.val

Min(a, b) == IF a < b THEN a ELSE b

\* Math.ceil(a / b) for a >= 0 and b # 0.
CeilDiv(a, b) == IF b > 0 THEN (a + b - 1) \div b ELSE -(a \div (-b))

\* Text is a sequence of characters; toLower folds the case of one character.
toLower(c) == CASE c = "A" -> "a" [] c = "B" -> "b" [] OTHER -> c

Lower(s) == [i \in 1..Len(s) |-> toLower(s[i])]

\* { contains: q, mode: 'insensitive' }
ContainsInsensitive(s, q) ==
  \E i \in 1..(Len(s) - Len(q) + 1) : SubSeq(Lower(s), i, i + Len(q) - 1) = Lower(q)

(***************************************************************************)
(* The accounts table and the tenant-scoping layer.                        *)
(***************************************************************************)
DefaultLimit == 10
MaxLimit == 100

Rows(table) == {table[i] : i \in 1..Len(table)}

\* A where-clause is a map from a key to the value required; the key OR holds
\* the search text matched against name, website and city.
Matches(row, where) ==
  \A k \in DOMAIN where :
    IF k = "OR"
      THEN \/ ContainsInsensitive(row.name, where[k])
           \/ ContainsInsensitive(row.website, where[k])
           \/ ContainsInsensitive(row.city, where[k])
      ELSE row[k] = where[k]

Matching(table, where) == {r \in Rows(table) : Matches(r, where)}

\* model.count({where})
count(table, where) == Cardinality(Matching(table, where))

\* The orders the store may return S in under `orderBy: {key: 'desc'}`: rows
\* with equal keys come in any order.
SortedDesc(S, key) ==
  {f \in [1..Cardinality(S) -> S] :
     /\ \A i, j \in DOMAIN f : i # j => f[i] # f[j]
     /\ \A i, j \in DOMAIN f : i < j => f[i][key] >= f[j][key]}

Reverse(s) == [i \in 1..Len(s) |-> s[Len(s) + 1 - i]]

\* skip and take on an ordered result; a negative take counts from the end.
Window(s, skip, take) ==
  IF take >= 0 THEN SubSeq(s, skip + 1, Min(skip + take, Len(s)))
  ELSE Reverse(SubSeq(Reverse(s), skip + 1, Min(skip - take, Len(s))))

\* model.findMany({where, orderBy, skip, take}): the results the store may
\* give; a negative skip is refused by the client library.
findMany(table, where, key, skip, take) ==
  IF skip < 0 THEN [threw |-> TRUE, results |-> {}]
  ELSE [threw |-> FALSE,
        results |-> {Window(s, skip, take) : s \in SortedDesc(Matching(table, where), key)}]

\* Faulty variant: update({where: {id}, data: {isActive: false}}).
softDelete_IdOnly(table, id, tenantId) ==
  IF id \in DOMAIN table
    THEN [threw |-> FALSE, table |-> [table EXCEPT ![id].isActive = FALSE]]
  ELSE [threw |-> TRUE, table |-> table]

\* softDelete(model, id, tenantId): update({where: {id, tenantId}, data:
\* {isActive: false}}); update throws when no row matches the where.
softDelete(table, id, tenantId) ==
  IF id \in DOMAIN table /\ table[id].tenantId = tenantId
    THEN [threw |-> FALSE, table |-> [table EXCEPT ![id].isActive = FALSE]]
  ELSE [threw |-> TRUE, table |-> table]

\* {...baseQuery, where: {...baseQuery.where, tenantId}}
withTenantFilter(tenantId, baseQuery) ==
  [baseQuery EXCEPT !.where =
     [k \in DOMAIN baseQuery.where \cup {"tenantId"} |->
        IF k = "tenantId" THEN tenantId ELSE baseQuery.where[k]]]

\* Faulty variant: {tenantId, isActive: true, ...params.where}, the base filter last.
ScopedWhere_BaseFilterLast(where, tenantId) ==
  [k \in DOMAIN where \cup {"tenantId", "isActive"} |->
     IF k \in DOMAIN where THEN where[k]
     ELSE IF k = "tenantId" THEN tenantId ELSE TRUE]

\* {...params.where, tenantId, isActive: true}
ScopedWhere(where, tenantId) ==
  [k \in DOMAIN where \cup {"tenantId", "isActive"} |->
     CASE k = "tenantId" -> tenantId
       [] k = "isActive" -> TRUE
       [] OTHER -> where[k]]

\* const page = params.page || 1
EffectivePage(params) == OrElse(params.page, 1)

\* const limit = Math.min(params.limit || 10, 100)
EffectiveLimit(params) == Min(OrElse(params.limit, DefaultLimit), MaxLimit)

\* const skip = (page - 1) * limit
Skip(params) == (EffectivePage(params) - 1) * EffectiveLimit(params)

\* orderBy: params.orderBy || {createdAt: 'desc'}
OrderKey(params) == IF params.orderBy = NULL THEN "createdAt" ELSE params.orderBy

\* Faulty variant: totalPages rounded down.
PageMeta_FloorPages(page, limit, total) ==
  [page |-> page, limit |-> limit, total |-> total, totalPages |-> total \div limit,
   hasNext |-> page < total \div limit, hasPrev |-> page > 1]

\* meta: {page, limit, total, totalPages, hasNext, hasPrev}
PageMeta(page, limit, total) ==
  [page |-> page, limit |-> limit, total |-> total, totalPages |-> CeilDiv(total, limit),
   hasNext |-> page < CeilDiv(total, limit), hasPrev |-> page > 1]

\* paginate(model, params, tenantId) with both reads on one state of the
\* store: the results it may return, or threw.
paginate(table, params, tenantId) ==
  LET where == ScopedWhere(params.where, tenantId)
      found == findMany(table, where, OrderKey(params), Skip(params), EffectiveLimit(params))
      total == count(table, where)
  IN  IF found.threw THEN [threw |-> TRUE, results |-> {}]
      ELSE [threw |-> FALSE,
            results |->
              {[data |-> d,
                meta |-> PageMeta(EffectivePage(params), EffectiveLimit(params), total)] :
                 d \in found.results}]

(***************************************************************************)
(* Requests: the Authorization header, the query string, the body, and     *)
(* the store faults that may hit a request.                                *)
(***************************************************************************)
NoHeader == [kind |-> "absent", payload |-> NoPayload, exp |-> 0, sig |-> ""]
EmptyBearer == [kind |-> "empty", payload |-> NoPayload, exp |-> 0, sig |-> ""]
Garbage == [kind |-> "malformed", payload |-> NoPayload, exp |-> 0, sig |-> ""]

\* The claims a token for user u carries, with any tenant claim; u9 is no user.
ClaimsFor(u, t) ==
  [userId |-> u, tenantId |-> t,
   roleId |-> IF u \in UserIds /\ InitUsers[u].roleId # NULL THEN InitUsers[u].roleId ELSE "",
   email |-> IF u \in UserIds THEN InitUsers[u].email ELSE "ghost@x"]

\* The headers a client may present at time `at`: none, garbage, a token
\* signed with another secret, a token naming no user, and tokens the server
\* signed at some earlier time, for any user with any tenant claim.
Headers(at) ==
  {NoHeader, EmptyBearer, Garbage, Sign(ClaimsFor("u1", "tA"), "forged", at),
   Sign(ClaimsFor("u9", "tA"), JWT_SECRET, at)} \cup
  {Sign(ClaimsFor(u, t), JWT_SECRET, iat) : u \in UserIds, t \in Tenants, iat \in 0..at}

NoQuery ==
  [page |-> "", limit |-> "", search |-> <<>>, industry |-> "", accountType |-> "",
   ownerId |-> ""]

\* Query strings: each parameter absent or given.
Queries ==
  {NoQuery,
   [NoQuery EXCEPT !.page = "2", !.limit = "1"],
   [NoQuery EXCEPT !.page = "-1"],
   [NoQuery EXCEPT !.limit = "101", !.search = <<"a">>],
   [NoQuery EXCEPT !.industry = "tech", !.accountType = "customer"],
   [NoQuery EXCEPT !.ownerId = "u2"]}

NoBody ==
  [json |-> FALSE, name |-> <<>>, website |-> <<>>, city |-> <<>>, industry |-> "",
   accountType |-> "", ownerId |-> NULL, tenantId |-> NULL]

\* Request bodies: json is FALSE for a body that is no JSON; NULL is an absent key.
Bodies ==
  {NoBody,
   [NoBody EXCEPT !.json = TRUE],
   [NoBody EXCEPT !.json = TRUE, !.name = <<"A", "b">>],
   [NoBody EXCEPT !.json = TRUE, !.name = <<"A", "b">>, !.accountType = "bogus"],
   [NoBody EXCEPT !.json = TRUE, !.name = <<"A", "b">>, !.ownerId = ""],
   [NoBody EXCEPT !.json = TRUE, !.name = <<"B">>, !.industry = "tech",
                  !.accountType = "customer", !.ownerId = "u2", !.tenantId = "tB"],
   [NoBody EXCEPT !.json = TRUE, !.name = <<"B">>, !.ownerId = "u9"]}

AccountTypes == {"prospect", "customer", "partner"}

\* createAccountSchema.parse(body): unknown keys are stripped, defaults applied.
parseBody(body) ==
  IF Len(body.name) < 1 \/ (body.accountType # "" /\ body.accountType \notin AccountTypes)
    THEN [ok |-> FALSE, data |-> NoBody]
  ELSE [ok |-> TRUE,
        data |-> [body EXCEPT !.tenantId = NULL,
                              !.accountType = IF body.accountType = "" THEN "prospect"
                                              ELSE body.accountType]]

\* Where a store call of the request fails, and the text of the error.
NoFault == [at |-> "none", msg |-> ""]

AuditFault == [at |-> "audit", msg |-> "Can't reach database server"]

Faults ==
  {NoFault,
   [at |-> "userLookup", msg |-> "Can't reach database server"],
   [at |-> "data", msg |-> "Can't reach database server"],
   [at |-> "data", msg |-> "Authentication failed against database server"],
   AuditFault}

ClientMeta == {[xff |-> "", ua |-> "curl"]}

(***************************************************************************)
(* Responses.  A response records what the request presented, the steps   *)
(* of the handler that ran (in order), and what the client is sent.        *)
(***************************************************************************)
NoAccount ==
  [id |-> 0, tenantId |-> "", ownerId |-> "", name |-> <<>>, website |-> <<>>,
   city |-> <<>>, industry |-> "", accountType |-> "", isActive |-> FALSE,
   createdAt |-> 0, updatedAt |-> 0]

NoOwner == [id |-> "", email |-> ""]

NoMeta ==
  [page |-> 0, limit |-> 0, total |-> 0, totalPages |-> 0, hasNext |-> FALSE,
   hasPrev |-> FALSE]

Blank ==
  [op |-> "none", header |-> "absent", claims |-> NoPayload, validAt |-> FALSE,
   status |-> 0, error |-> "", user |-> "", data |-> <<>>, meta |-> NoMeta,
   account |-> NoAccount, owner |-> NoOwner, bodyOwner |-> NULL, steps |-> <<>>]

\* What the request presented: the header's kind, its claims, and whether
\* signature and expiry were good when it was handled.
Presented(op, header, at) ==
  [Blank EXCEPT !.op = op, !.header = header.kind, !.claims = header.payload,
                !.validAt = ThrowingVerify(header, at).ok]

\* error.message.includes('Authentication'), on the messages that occur.
IncludesAuthentication(msg) ==
  msg \in {"Authentication required", "Authentication failed against database server"}

\* The catch block of GET /api/accounts.
GETCatch(msg) ==
  IF msg = "Authentication required" THEN [status |-> 401, error |-> "Authentication required"]
  ELSE IF msg = "Invalid token" THEN [status |-> 401, error |-> "Invalid token"]
  ELSE [status |-> 500, error |-> "Internal server error"]

\* The catch block of POST /api/accounts.
POSTCatch(isZod, msg) ==
  IF isZod THEN [status |-> 400, error |-> "Validation failed"]
  ELSE IF IncludesAuthentication(msg) THEN [status |-> 401, error |-> msg]
  ELSE [status |-> 500, error |-> "Internal server error"]

Failed(base, caught, steps) ==
  [base EXCEPT !.status = caught.status, !.error = caught.error, !.steps = steps]

\* The where-clause GET builds from the query string.
GETWhere(query) ==
  [k \in {"isActive"}
         \cup (IF query.search # <<>> THEN {"OR"} ELSE {})
         \cup (IF query.industry # "" THEN {"industry"} ELSE {})
         \cup (IF query.accountType # "" THEN {"accountType"} ELSE {})
         \cup (IF query.ownerId # "" THEN {"ownerId"} ELSE {}) |->
     CASE k = "isActive" -> TRUE
       [] k = "OR" -> query.search
       [] k = "industry" -> query.industry
       [] k = "accountType" -> query.accountType
       [] OTHER -> query.ownerId]

\* GET /api/accounts: the responses the request may get.
HandleGET(header, query, fault) ==
  LET base == Presented("GET", header, now)
      auth == authenticate(header, users, now, fault.at # "userLookup")
  IN  IF auth.error # NULL THEN {Failed(base, GETCatch(auth.error), <<"authenticate">>)}
      ELSE LET params == [page |-> parseInt(IF query.page = "" THEN "1" ELSE query.page),
                          limit |-> parseInt(IF query.limit = "" THEN "10" ELSE query.limit),
                          where |-> GETWhere(query), orderBy |-> "updatedAt"]
               res == paginate(accounts, params, auth.user.tenantId)
           IN  IF fault.at = "data"
                 THEN {Failed([base EXCEPT !.user = auth.user.id], GETCatch(fault.msg),
                              <<"authenticate", "paginate">>)}
               ELSE IF res.threw
                 THEN {Failed([base EXCEPT !.user = auth.user.id],
                              GETCatch("Invalid value for skip"),
                              <<"authenticate", "paginate">>)}
               ELSE {[base EXCEPT !.user = auth.user.id, !.status = 200, !.data = r.data,
                                  !.meta = r.meta,
                                  !.steps = <<"authenticate", "paginate">>] :
                       r \in res.results}

(***************************************************************************)
(* The audit recorder.                                                     *)
(***************************************************************************)
OrUnknown(h) == IF h = "" THEN "unknown" ELSE h

\* An optional value is <<>> when absent and <<v>> when given.
\* beforeData ? JSON.stringify(beforeData) : null
Stringify(data) == IF data = <<>> THEN <<>> ELSE <<"json", data[1]>>

\* Faulty variant: the after-snapshot is left out of the row.
AuditRow_NoSnapshot(entry) ==
  [entry EXCEPT !.beforeData = Stringify(entry.beforeData), !.afterData = <<>>]

\* The row prisma.auditLog.create is given.
AuditRow(entry) ==
  [entry EXCEPT !.beforeData = Stringify(entry.beforeData),
                !.afterData = Stringify(entry.afterData)]

\* prisma.auditLog.create: it throws when the store cannot be reached and
\* when the table's constraints refuse the row (tenant_id references tenants).
auditLogCreate(row, log, storeUp) ==
  IF ~storeUp \/ row.tenantId \notin Tenants THEN [threw |-> TRUE, log |-> log]
  ELSE [threw |-> FALSE, log |-> Append(log, row)]

\* Faulty variant: the error of the store is not caught.
createAuditLog_Rethrows(entry, log, storeUp) ==
  auditLogCreate(AuditRow(entry), log, storeUp)

\* Faulty variant: the row is written, and written once more.
createAuditLog_WritesTwice(entry, log, storeUp) ==
  LET first == auditLogCreate(AuditRow(entry), log, storeUp)
  IN  [threw |-> FALSE,
       log |-> auditLogCreate(AuditRow(entry), first.log, TRUE).log]

\* createAuditLog: the create inside try/catch; whatever it throws is logged
\* to the console and swallowed.
createAuditLog(entry, log, storeUp) ==
  [threw |-> FALSE, log |-> auditLogCreate(AuditRow(entry), log, storeUp).log]

(***************************************************************************)
(* POST /api/accounts.                                                     *)
(***************************************************************************)
\* Faulty variant: the row takes the tenant of the owner it names, not the caller's.
NewAccount_OwnerTenant(data, user, id, at) ==
  [id |-> id,
   tenantId |-> IF data.ownerId \in UserIds THEN InitUsers[data.ownerId].tenantId
                ELSE user.tenantId,
   ownerId |-> IF data.ownerId \in {NULL, ""} THEN user.id ELSE data.ownerId,
   name |-> data.name, website |-> data.website, city |-> data.city,
   industry |-> data.industry, accountType |-> data.accountType, isActive |-> TRUE,
   createdAt |-> at, updatedAt |-> at]

\* The row prisma.account.create writes: {...data, tenantId, ownerId}.
NewAccount(data, user, id, at) ==
  [id |-> id, tenantId |-> user.tenantId,
   ownerId |-> IF data.ownerId \in {NULL, ""} THEN user.id ELSE data.ownerId,
   name |-> data.name, website |-> data.website, city |-> data.city,
   industry |-> data.industry, accountType |-> data.accountType, isActive |-> TRUE,
   createdAt |-> at, updatedAt |-> at]

\* include: {owner: {select: {id, email, ...}}}
OwnerOf(row, table) == [id |-> table[row.ownerId].id, email |-> table[row.ownerId].email]

\* The response, and the tables after the request.
HandlePOST(header, body, client, fault) ==
  LET base == [Presented("POST", header, now) EXCEPT !.bodyOwner = body.ownerId]
      same(resp) ==
        [resp |-> resp, accounts |-> accounts, auditLog |-> auditLog, handed |-> <<>>]
      auth == authenticate(header, users, now, fault.at # "userLookup")
      authed == [base EXCEPT !.user = auth.user.id]
      parsed == parseBody(body)
      row == NewAccount(parsed.data, auth.user, Len(accounts) + 1, now)
      entry == [tenantId |-> auth.user.tenantId, userId |-> auth.user.id,
                action |-> "CREATE", resourceType |-> "account", resourceId |-> row.id,
                beforeData |-> <<>>, afterData |-> <<row>>,
                ipAddress |-> OrUnknown(client.xff), userAgent |-> OrUnknown(client.ua),
                timestamp |-> now]
  IN  IF auth.error # NULL
        THEN same(Failed(base, POSTCatch(FALSE, auth.error), <<"authenticate">>))
      ELSE IF ~body.json
        THEN same(Failed(authed, POSTCatch(FALSE, "Unexpected token in JSON"),
                         <<"authenticate", "json">>))
      ELSE IF ~parsed.ok
        THEN same(Failed(authed, POSTCatch(TRUE, ""), <<"authenticate", "json", "parse">>))
      ELSE IF fault.at = "data"
        THEN same(Failed(authed, POSTCatch(FALSE, fault.msg),
                         <<"authenticate", "json", "parse", "create">>))
      ELSE IF row.ownerId \notin UserIds
        THEN same(Failed(authed, POSTCatch(FALSE, "Foreign key constraint failed"),
                         <<"authenticate", "json", "parse", "create">>))
      ELSE LET audit == createAuditLog(entry, auditLog, fault.at # "audit")
               steps == <<"authenticate", "json", "parse", "create", "audit">>
           IN  [resp |-> IF audit.threw
                           THEN Failed(authed, POSTCatch(FALSE, fault.msg), steps)
                         ELSE [authed EXCEPT !.status = 201, !.account = row,
                                             !.owner = OwnerOf(row, users),
                                             !.steps = steps],
                accounts |-> Append(accounts, row),
                auditLog |-> audit.log,
                handed |-> <<entry>>]

(***************************************************************************)
(* POST /api/auth/login.                                                   *)
(***************************************************************************)
NoLoginBody == [json |-> FALSE, email |-> "", password |-> ""]

\* Strings z.string().email() accepts, among those the bodies carry.
EmailShaped == {"admin@demo", "nobody@demo"}

LoginBodies ==
  {NoLoginBody,
   [json |-> TRUE, email |-> "admin", password |-> "pw1"],
   [json |-> TRUE, email |-> "admin@demo", password |-> ""],
   [json |-> TRUE, email |-> "admin@demo", password |-> "pw1"],
   [json |-> TRUE, email |-> "admin@demo", password |-> "pw2"],
   [json |-> TRUE, email |-> "admin@demo", password |-> "guess"],
   [json |-> TRUE, email |-> "nobody@demo", password |-> "pw1"]}

\* loginSchema.parse(body)
parseLogin(body) == body.email \in EmailShaped /\ body.password # ""

\* The x-forwarded-for, x-real-ip and user-agent headers; "" is an absent one.
LoginClients ==
  {[xff |-> "", realIp |-> "", ua |-> ""],
   [xff |-> "", realIp |-> "10.0.0.9", ua |-> "curl"]}

LoginFaults ==
  {NoFault,
   [at |-> "userLookup", msg |-> "Can't reach database server"],
   [at |-> "data", msg |-> "Can't reach database server"],
   [at |-> "data", msg |-> "Authentication failed against database server"],
   AuditFault}

\* request.headers.get('x-forwarded-for') || request.headers.get('x-real-ip') || 'unknown'
clientIP(client) == IF client.xff # "" THEN client.xff ELSE OrUnknown(client.realIp)

\* Faulty variant: the password is not compared with the hash.
authenticateUser_AnyPassword(email, password, table, at) ==
  LET found == {u \in UserIds : table[u].email = email /\ table[u].isActive}
      null == [ok |-> FALSE, user |-> NoUser, token |-> NoHeader, users |-> table]
  IN  IF found = {} THEN {null}
      ELSE {IF table[u].passwordHash = <<>> THEN null
            ELSE [ok |-> TRUE,
                  user |-> [id |-> table[u].id, email |-> table[u].email,
                            tenantId |-> table[u].tenantId, roleId |-> table[u].roleId,
                            role |-> roleOf(table[u].roleId)],
                  token |-> generateToken(
                              [userId |-> table[u].id, tenantId |-> table[u].tenantId,
                               roleId |-> IF table[u].roleId = NULL THEN ""
                                          ELSE table[u].roleId,
                               email |-> table[u].email], at),
                  users |-> [table EXCEPT ![u].lastLogin = at]] : u \in found}

\* authenticateUser(email, password): null, or the user and a token, with
\* lastLogin written.  findFirst is given no order, so with several active
\* users of that email the store may return any of them.  A user without a
\* password hash (<<>>) is refused.
authenticateUser(email, password, table, at) ==
  LET found == {u \in UserIds : table[u].email = email /\ table[u].isActive}
      null == [ok |-> FALSE, user |-> NoUser, token |-> NoHeader, users |-> table]
  IN  IF found = {} THEN {null}
      ELSE {IF table[u].passwordHash = <<>> THEN null
            ELSE IF ~verifyPassword(password, table[u].passwordHash) THEN null
            ELSE [ok |-> TRUE,
                  user |-> [id |-> table[u].id, email |-> table[u].email,
                            tenantId |-> table[u].tenantId, roleId |-> table[u].roleId,
                            role |-> roleOf(table[u].roleId)],
                  token |-> generateToken(
                              [userId |-> table[u].id, tenantId |-> table[u].tenantId,
                               roleId |-> IF table[u].roleId = NULL THEN ""
                                          ELSE table[u].roleId,
                               email |-> table[u].email], at),
                  users |-> [table EXCEPT ![u].lastLogin = at]] : u \in found}

NoLoginResponse ==
  [status |-> 0, error |-> "", user |-> NULL, tenantId |-> NULL, token |-> NoHeader,
   steps |-> <<>>]

\* The entries the login handler hands to createAuditLog.
LoginFailedEntry(body, client, at) ==
  [tenantId |-> "", userId |-> NULL, action |-> "LOGIN_FAILED", resourceType |-> "user",
   resourceId |-> NULL, beforeData |-> <<>>, afterData |-> <<[email |-> body.email]>>,
   ipAddress |-> clientIP(client), userAgent |-> OrUnknown(client.ua), timestamp |-> at]

LoginSuccessEntry(user, client, at) ==
  [tenantId |-> user.tenantId, userId |-> user.id, action |-> "LOGIN_SUCCESS",
   resourceType |-> "user", resourceId |-> user.id, beforeData |-> <<>>,
   afterData |-> <<[method |-> "password"]>>,
   ipAddress |-> clientIP(client), userAgent |-> OrUnknown(client.ua), timestamp |-> at]

\* POST /api/auth/login: the outcomes the request may have, each the
\* response, the tables after it and the entries handed to createAuditLog.
HandleLogin(body, client, fault) ==
  LET failed(status, error, steps, table) ==
        [resp |-> [NoLoginResponse EXCEPT !.status = status, !.error = error,
                                          !.steps = steps],
         users |-> table, auditLog |-> auditLog, handed |-> <<>>]
      answer(res) ==
        LET entry == IF res.ok THEN LoginSuccessEntry(res.user, client, now)
                     ELSE LoginFailedEntry(body, client, now)
            audit == createAuditLog(entry, auditLog, fault.at # "audit")
            steps == <<"json", "parse", "authenticateUser", "audit">>
        IN  IF fault.at = "data" /\ res.ok
              THEN failed(500, "Internal server error",
                          <<"json", "parse", "authenticateUser">>, users)
            ELSE [resp |-> IF audit.threw
                             THEN [NoLoginResponse EXCEPT
                                     !.status = 500, !.error = "Internal server error",
                                     !.steps = steps]
                           ELSE IF res.ok
                             THEN [NoLoginResponse EXCEPT
                                     !.status = 200, !.user = res.user.id,
                                     !.tenantId = res.user.tenantId,
                                     !.token = res.token, !.steps = steps]
                           ELSE [NoLoginResponse EXCEPT
                                   !.status = 401, !.error = "Invalid credentials",
                                   !.steps = steps],
                  users |-> res.users, auditLog |-> audit.log, handed |-> <<entry>>]
  IN  IF ~body.json THEN {failed(500, "Internal server error", <<"json">>, users)}
      ELSE IF ~parseLogin(body)
        THEN {failed(400, "Validation failed", <<"json", "parse">>, users)}
      ELSE IF fault.at = "userLookup"
        THEN {failed(500, "Internal server error",
                     <<"json", "parse", "authenticateUser">>, users)}
      ELSE {answer(res) : res \in authenticateUser(body.email, body.password, users, now)}

(***************************************************************************)
(* Actions.                                                                *)
(***************************************************************************)
permIdle == <<permArgs, permOut>>

tokenIdle == <<issued, decoded>>

Tick ==
  /\ now < MaxTime
  /\ now' = now + 1
  /\ UNCHANGED <<users, accounts, auditLog, permIdle, tokenIdle, listing, flight>>

\* The token passes signature and expiry and names an active user of its tenant.
Authenticates(header, fault) ==
  authenticate(header, users, now, fault.at # "userLookup").error = NULL

\* The requests a client may send now.  A fault is drawn only where the
\* request reaches the store, a query or body only where the handler reads it.
ValidHeaders == {h \in Headers(now) : Authenticates(h, NoFault)}

GETRequests ==
  {[header |-> h, fault |-> NoFault, query |-> NoQuery] : h \in Headers(now)}
  \cup {[header |-> h, fault |-> f, query |-> NoQuery] :
          h \in ValidHeaders, f \in Faults \ {AuditFault}}
  \cup {[header |-> h, fault |-> NoFault, query |-> q] : h \in ValidHeaders, q \in Queries}

POSTRequests ==
  {[header |-> h, fault |-> NoFault, body |-> NoBody, client |-> c] :
     h \in Headers(now), c \in ClientMeta}
  \cup {[header |-> h, fault |-> f, body |-> NoBody, client |-> c] :
          h \in ValidHeaders, f \in Faults, c \in ClientMeta}
  \cup {[header |-> h, fault |-> f, body |-> b, client |-> c] :
          h \in ValidHeaders, f \in {NoFault, AuditFault}, b \in Bodies, c \in ClientMeta}

\* GET /api/accounts reads the store and writes nothing.
GET ==
  /\ \E r \in GETRequests : HandleGET(r.header, r.query, r.fault) # {}
  /\ UNCHANGED vars

POST ==
  \E r \in POSTRequests :
    LET out == HandlePOST(r.header, r.body, r.client, r.fault)
    IN  /\ Len(out.accounts) <= MaxAccounts
        /\ Len(out.auditLog) <= MaxAudit
        /\ accounts' = out.accounts
        /\ auditLog' = out.auditLog
        /\ UNCHANGED <<now, users, permIdle, tokenIdle, listing, flight>>

\* softDelete(model, id, tenantId) on the users and on the accounts table.
softDeleteUser ==
  \E id \in UserIds, tenantId \in Tenants :
    /\ ~softDelete(users, id, tenantId).threw
    /\ users' = softDelete(users, id, tenantId).table
    /\ UNCHANGED <<now, accounts, auditLog, permIdle, tokenIdle, listing, flight>>

softDeleteAccount ==
  \E id \in 1..Len(accounts), tenantId \in Tenants :
    /\ ~softDelete(accounts, id, tenantId).threw
    /\ accounts' = softDelete(accounts, id, tenantId).table
    /\ UNCHANGED <<now, users, auditLog, permIdle, tokenIdle, listing, flight>>

\* No request is being handled step by step.
NoFlight ==
  [pc |-> "idle", kind |-> "none", entry |-> <<>>, pending |-> 0, status |-> 0,
   clientGone |-> FALSE]

\* Before generateToken and verifyToken are called.
NoneIssued == [called |-> FALSE, claims |-> NoPayload, at |-> 0, token |-> NoHeader]
NoneDecoded ==
  [called |-> FALSE, at |-> 0, result |-> [ok |-> FALSE, error |-> "", payload |-> NoPayload]]

NoPermArgs == [perms |-> NullPerms, resource |-> "", action |-> ""]

NoListParams == [page |-> NaN, limit |-> NaN, where |-> [k \in {} |-> TRUE], orderBy |-> NULL]

\* No paginate call is in progress.  seen is the count of matching rows in
\* the state of the store the rows were read from.
NoListing ==
  [pc |-> "idle", params |-> NoListParams, tenantId |-> "", rowsRead |-> FALSE,
   countRead |-> FALSE, threw |-> FALSE, data |-> <<>>, total |-> 0, seen |-> 0]

Init ==
  /\ now = 0
  /\ users = InitUsers
  /\ accounts = <<>>
  /\ auditLog = <<>>
  /\ permArgs = NoPermArgs
  /\ permOut = "none"
  /\ issued = NoneIssued
  /\ decoded = NoneDecoded
  /\ flight = NoFlight
  /\ listing = NoListing

Next == Tick \/ GET \/ POST \/ softDeleteUser \/ softDeleteAccount

Spec == Init /\ [][Next]_vars

(***************************************************************************)
(* The handlers that write the audit log: login, list and create.          *)
(***************************************************************************)
LoginRequests ==
  {[body |-> b, client |-> c, fault |-> NoFault] : b \in LoginBodies, c \in LoginClients}
  \cup {[body |-> b, client |-> c, fault |-> f] :
          b \in {x \in LoginBodies : parseLogin(x)},
          c \in {x \in LoginClients : x.ua = ""}, f \in LoginFaults}

Login ==
  \E r \in LoginRequests :
    \E out \in HandleLogin(r.body, r.client, r.fault) :
      /\ Len(out.auditLog) <= MaxAudit
      /\ users' = out.users
      /\ auditLog' = out.auditLog
      /\ UNCHANGED <<now, accounts, permIdle, tokenIdle, listing, flight>>

\* The clock stands still here: no audit entry depends on the time but for
\* its timestamp.
NextAudit == Login \/ GET \/ POST \/ softDeleteUser

SpecAudit == Init /\ [][NextAudit]_vars

(***************************************************************************)
(* The permission model on its own: hasPermission applied to permission    *)
(* sets over the keys '*' and 'accounts', to the default roles' sets and   *)
(* to null.                                                                *)
(***************************************************************************)
PermKeys == {"*", "accounts"}
PermActions == {"*", "read", "write"}

PermMaps == UNION {[D -> SUBSET PermActions] : D \in SUBSET PermKeys}

DefaultPerms == {Perms(DEFAULT_PERMISSIONS[r]) : r \in DOMAIN DEFAULT_PERMISSIONS}

PermInputs == {NullPerms} \cup {Perms(m) : m \in PermMaps} \cup DefaultPerms

InitPerm ==
  /\ now = 0
  /\ users = InitUsers
  /\ accounts = <<>>
  /\ auditLog = <<>>
  /\ permArgs \in [perms : PermInputs, resource : Resources \cup {"*", "invoices"},
                   action : {"read", "write", "delete", "*"}]
  /\ permOut = "none"
  /\ issued = NoneIssued
  /\ decoded = NoneDecoded
  /\ flight = NoFlight
  /\ listing = NoListing

CallHasPermission ==
  /\ permOut = "none"
  /\ permOut' = IF hasPermission(permArgs.perms, permArgs.resource, permArgs.action)
                  THEN "true" ELSE "false"
  /\ UNCHANGED <<now, users, accounts, auditLog, permArgs, tokenIdle, listing, flight>>

NextPerm == CallHasPermission

SpecPerm == InitPerm /\ [][NextPerm]_vars

\* The entry of key k lists action a, or lists the action wildcard.
EntryAllows(m, k, a) == k \in DOMAIN m /\ (a \in m[k] \/ "*" \in m[k])

\* The set has the universal entry: key '*' listing action '*'.
Universal(m) == "*" \in DOMAIN m /\ "*" \in m["*"]

\* C5: hasPermission returns true exactly when the set has a '*' entry whose
\* actions contain '*', or an entry for the resource whose actions contain the
\* action or '*'; a null set and a resource without entry give false, and so
\* does every pair a default role is not granted.
C5_HasPermissionExact ==
  permOut # "none" =>
    LET m == permArgs.perms.map
        r == permArgs.resource
        a == permArgs.action
    IN  /\ permOut = "true" <=>
             /\ ~permArgs.perms.isNull
             /\ Universal(m) \/ EntryAllows(m, r, a)
        /\ permArgs.perms.isNull => permOut = "false"
        /\ (~Universal(m) /\ r \notin DOMAIN m) => permOut = "false"
        /\ (permArgs.perms \in DefaultPerms /\ ~Universal(m) /\ ~EntryAllows(m, r, a))
             => permOut = "false"

\* A default role was asked for a pair it is not granted, and was denied; and
\* a set with entries was asked for a resource it has no entry for.
C5_Witness ==
  /\ permOut = "false"
  /\ permArgs.perms = Perms(DEFAULT_PERMISSIONS["Sales Rep"])
  /\ permArgs.resource = "reports"
  /\ permArgs.action = "read"

\* C6 as stated: a '*' entry that lists action a allows a on every resource,
\* and a resource entry listing '*' allows every action on that resource.
C6_StarKeyMeansAllResources ==
  permOut # "none" =>
    LET m == permArgs.perms.map
    IN  /\ (~permArgs.perms.isNull /\ EntryAllows(m, "*", permArgs.action))
             => permOut = "true"
        /\ (~permArgs.perms.isNull /\ permArgs.resource \in DOMAIN m
              /\ "*" \in m[permArgs.resource]) => permOut = "true"

\* C6, amended: the '*' entry means "all resources" only when it lists the
\* action '*' (then everything is allowed); a '*' entry listing only named
\* actions adds nothing for any other resource, whose own entry alone decides;
\* a resource entry listing '*' allows every action on that resource.
C6_StarKeyOnlyWithStarAction ==
  permOut # "none" /\ ~permArgs.perms.isNull =>
    LET m == permArgs.perms.map
        r == permArgs.resource
        a == permArgs.action
    IN  /\ Universal(m) => permOut = "true"
        /\ ("*" \in DOMAIN m /\ "*" \notin m["*"] /\ r # "*")
             => (permOut = "true" <=> EntryAllows(m, r, a))
        /\ (r \in DOMAIN m /\ "*" \in m[r]) => permOut = "true"

\* The set {'*': ['read']} was asked for read on accounts, and denied.
C6_Witness ==
  /\ permOut = "false"
  /\ permArgs.perms = Perms([k \in {"*"} |-> {"read"}])
  /\ permArgs.resource = "accounts"
  /\ permArgs.action = "read"

(***************************************************************************)
(* Properties of the accounts handlers.  They are stated of every request  *)
(* a client may send in a reachable state of the store.                    *)
(***************************************************************************)
\* Signature and expiry of the presented token are good now.
TokenGood(h) == h.kind = "jwt" /\ h.sig = JWT_SECRET /\ now < h.exp

\* The token's claims name an active user of the tenant they claim.
NamesActiveUser(h) ==
  /\ h.payload.userId \in UserIds
  /\ users[h.payload.userId].tenantId = h.payload.tenantId
  /\ users[h.payload.userId].isActive

MissingToken(h) == h.kind \in {"absent", "empty"}

InvalidToken(h) == ~MissingToken(h) /\ ~(TokenGood(h) /\ NamesActiveUser(h))

\* Base filters a caller of paginate may pass, some carrying tenantId or isActive.
BaseFilters ==
  {[k \in {} |-> TRUE]} \cup
  {[k \in {"tenantId"} |-> t] : t \in Tenants} \cup
  {[k \in {"tenantId", "isActive"} |-> IF k = "tenantId" THEN t ELSE FALSE] : t \in Tenants}

PageParams == [page : {NaN, Num(2)}, limit : {NaN, Num(1)}]

\* C1: every row GET /api/accounts returns has the tenant of the caller's
\* validated token, and every row paginate returns for a tenant is a row of
\* that tenant, whatever the query parameters and the base filter.
C1_RowsOfCallersTenant ==
  /\ \A r \in GETRequests :
       \A resp \in HandleGET(r.header, r.query, r.fault) :
         resp.status = 200 =>
           /\ TokenGood(r.header)
           /\ \A i \in 1..Len(resp.data) : resp.data[i].tenantId = r.header.payload.tenantId
  /\ \A t \in Tenants, w \in BaseFilters, pp \in PageParams :
       \A res \in paginate(accounts, [page |-> pp.page, limit |-> pp.limit, where |-> w,
                                      orderBy |-> NULL], t).results :
         \A i \in 1..Len(res.data) : res.data[i].tenantId = t

\* A caller is listed a row of its own while another tenant has an active row.
C1_Witness ==
  \E r \in GETRequests :
    \E resp \in HandleGET(r.header, r.query, r.fault) :
      /\ resp.status = 200
      /\ Len(resp.data) >= 1
      /\ \E row \in Rows(accounts) :
           row.isActive /\ row.tenantId # r.header.payload.tenantId

\* The user row of an authenticated response, with its role joined in.
Caller(resp) ==
  [id |-> resp.user, role |-> roleOf(users[resp.user].roleId)]

\* C2 as stated: accounts are listed or created only for a caller whose role
\* is allowed the action on the accounts resource.
C2_PermissionChecked ==
  /\ \A r \in GETRequests :
       \A resp \in HandleGET(r.header, r.query, r.fault) :
         resp.status = 200 => canAccessResource(Caller(resp), "accounts", "read")
  /\ \A r \in POSTRequests :
       LET out == HandlePOST(r.header, r.body, r.client, r.fault)
       IN  out.accounts # accounts => canAccessResource(Caller(out.resp), "accounts", "write")

\* C3: an account created through POST /api/accounts has the tenant of the
\* authenticated user the token names, whatever the body carries.
C3_CreatedInCallersTenant ==
  \A r \in POSTRequests :
    LET out == HandlePOST(r.header, r.body, r.client, r.fault)
    IN  /\ out.resp.status = 201 =>
             /\ TokenGood(r.header)
             /\ out.resp.account.tenantId = r.header.payload.tenantId
             /\ out.resp.account.tenantId = users[out.resp.user].tenantId
             /\ out.accounts = Append(accounts, out.resp.account)
        /\ out.resp.status # 201 => out.accounts = accounts

\* An account has been created from the body that carries another tenant's
\* id, and such a body is accepted again.
C3_Witness ==
  /\ \E i \in 1..Len(accounts) :
       /\ accounts[i].name = <<"B">>
       /\ accounts[i].tenantId = "tA"
  /\ \E r \in POSTRequests :
       /\ HandlePOST(r.header, r.body, r.client, r.fault).resp.status = 201
       /\ r.body.tenantId # NULL
       /\ r.body.tenantId # r.header.payload.tenantId

\* C4 as stated: the owner of a created account is a user of the account's
\* tenant, and the response carries no other tenant's user.
C4_OwnerInAccountsTenant ==
  \A r \in POSTRequests :
    LET out == HandlePOST(r.header, r.body, r.client, r.fault)
    IN  out.resp.status = 201 =>
          /\ users[out.resp.account.ownerId].tenantId = out.resp.account.tenantId
          /\ users[out.resp.owner.id].tenantId = r.header.payload.tenantId

\* C7: getUserByToken yields a user only for a token that validates and
\* names an active user of the tenant it claims, and then that user, with the
\* claimed tenant; for any other token it yields null and the request that
\* carries it is answered with neither 200 nor 201 and changes no table.
C7_UserOnlyForMatchingClaims ==
  \A h \in Headers(now), storeUp \in BOOLEAN :
    LET u == getUserByToken(h, users, now, storeUp)
        fault == IF storeUp THEN NoFault
                 ELSE [at |-> "userLookup", msg |-> "Can't reach database server"]
    IN  /\ u # NoUser =>
             /\ TokenGood(h) /\ NamesActiveUser(h) /\ storeUp
             /\ u.id = h.payload.userId
             /\ u.tenantId = h.payload.tenantId
             /\ u.tenantId = users[u.id].tenantId
        /\ (TokenGood(h) /\ NamesActiveUser(h) /\ storeUp) => u.id = h.payload.userId
        /\ u = NoUser =>
             /\ \A q \in Queries \cup {NoQuery} :
                  \A resp \in HandleGET(h, q, fault) : resp.status \notin {200, 201}
             /\ \A b \in Bodies, c \in ClientMeta :
                  LET out == HandlePOST(h, b, c, fault)
                  IN  /\ out.resp.status \notin {200, 201}
                      /\ out.accounts = accounts
                      /\ out.auditLog = auditLog

\* A token that validates names a user who has been deactivated, another
\* claims a tenant its user is not of, and both yield null.
C7_Witness ==
  /\ \E h \in Headers(now) :
       /\ TokenGood(h)
       /\ h.payload.userId \in UserIds
       /\ users[h.payload.userId].tenantId = h.payload.tenantId
       /\ ~users[h.payload.userId].isActive
       /\ getUserByToken(h, users, now, TRUE) = NoUser
  /\ \E h \in Headers(now) :
       /\ TokenGood(h)
       /\ h.payload.userId \in UserIds
       /\ users[h.payload.userId].tenantId # h.payload.tenantId
       /\ getUserByToken(h, users, now, TRUE) = NoUser

\* Authentication of a request fails: no token, a token that does not
\* validate or names no active user of its tenant, or no answer from the store.
AuthFails(h, fault) == MissingToken(h) \/ InvalidToken(h) \/ fault.at = "userLookup"

AllSteps == <<"authenticate", "json", "parse", "create", "audit">>

IsPrefix(s, t) == Len(s) <= Len(t) /\ \A i \in 1..Len(s) : s[i] = t[i]

\* C8: the steps of a request run in order, and a request whose
\* authentication fails runs none after it: nothing is parsed, queried,
\* created or appended to the audit log.
C8_AuthFailureShortCircuits ==
  /\ \A h \in Headers(now), f \in Faults :
       AuthFails(h, f) =>
         /\ \A q \in Queries \cup {NoQuery} :
              \A resp \in HandleGET(h, q, f) :
                resp.steps = <<"authenticate">> /\ resp.data = <<>> /\ resp.status # 200
         /\ \A b \in Bodies, c \in ClientMeta :
              LET out == HandlePOST(h, b, c, f)
              IN  /\ out.resp.steps = <<"authenticate">>
                  /\ out.resp.account = NoAccount
                  /\ out.accounts = accounts
                  /\ out.auditLog = auditLog
  /\ \A r \in POSTRequests :
       LET out == HandlePOST(r.header, r.body, r.client, r.fault)
       IN  /\ IsPrefix(out.resp.steps, AllSteps)
           /\ out.accounts # accounts => SubSeq(out.resp.steps, 1, 4) = SubSeq(AllSteps, 1, 4)
           /\ out.auditLog # auditLog => out.resp.steps = AllSteps
  /\ \A r \in GETRequests :
       \A resp \in HandleGET(r.header, r.query, r.fault) :
         resp.status = 200 => resp.steps = <<"authenticate", "paginate">>

\* With accounts already created, an expired token arrives with a body that
\* would otherwise create an account, and only authentication runs.
C8_Witness ==
  /\ Len(accounts) >= 1
  /\ \E h \in Headers(now), b \in Bodies, c \in ClientMeta :
       /\ h.kind = "jwt" /\ h.sig = JWT_SECRET /\ now >= h.exp
       /\ NamesActiveUser(h)
       /\ b.json /\ parseBody(b).ok
       /\ HandlePOST(h, b, c, NoFault).resp.steps = <<"authenticate">>

\* C9 as stated: a request without a token, or with one that is malformed,
\* wrongly signed, expired or names no active user of its tenant, is
\* answered 401 by GET and by POST.
C9_Unauthenticated401 ==
  \A h \in Headers(now) :
    (MissingToken(h) \/ InvalidToken(h)) =>
      /\ \A q \in Queries \cup {NoQuery} :
           \A resp \in HandleGET(h, q, NoFault) : resp.status = 401
      /\ \A b \in Bodies, c \in ClientMeta :
           HandlePOST(h, b, c, NoFault).resp.status = 401

\* What the client is sent on a rejection.
Answer(resp) == [status |-> resp.status, error |-> resp.error]

\* C10: verifyToken fails with the one error 'Invalid or expired token', and
\* without claims, for every token that is malformed, wrongly signed or
\* expired; and each handler answers every request with an invalid token the
\* same, whatever made the token invalid.
C10_OneGenericRejection ==
  /\ \A h \in Headers(now) :
       ~TokenGood(h) =>
         verifyToken(h, now) =
           [ok |-> FALSE, error |-> "Invalid or expired token", payload |-> NoPayload]
  /\ \A h \in Headers(now) :
       TokenGood(h) => verifyToken(h, now) = [ok |-> TRUE, error |-> NULL, payload |-> h.payload]
  /\ \A h \in Headers(now) :
       InvalidToken(h) =>
         /\ \A q \in Queries \cup {NoQuery} :
              \A resp \in HandleGET(h, q, NoFault), ref \in HandleGET(Garbage, NoQuery, NoFault) :
                Answer(resp) = Answer(ref)
         /\ \A b \in Bodies, c \in ClientMeta :
              Answer(HandlePOST(h, b, c, NoFault).resp) =
                Answer(HandlePOST(Garbage, NoBody, c, NoFault).resp)

\* Tokens invalid for each reason are at hand: malformed, wrongly signed,
\* expired, naming a deactivated user, claiming another tenant.
C10_Witness ==
  /\ \E h \in Headers(now) : h.kind = "malformed"
  /\ \E h \in Headers(now) : h.kind = "jwt" /\ h.sig # JWT_SECRET
  /\ \E h \in Headers(now) : h.kind = "jwt" /\ h.sig = JWT_SECRET /\ now >= h.exp
  /\ \E h \in Headers(now) :
       TokenGood(h) /\ h.payload.userId \in UserIds /\ ~users[h.payload.userId].isActive
  /\ \E h \in Headers(now) :
       /\ TokenGood(h) /\ h.payload.userId \in UserIds
       /\ users[h.payload.userId].tenantId # h.payload.tenantId
  /\ \A h \in Headers(now) : ~TokenGood(h) => ~verifyToken(h, now).ok

(***************************************************************************)
(* The token service on its own: generateToken and verifyToken applied to  *)
(* claim sets, with the clock running past the expiry of the token.        *)
(***************************************************************************)
ClaimSets ==
  [userId : {"u1", "u9"}, tenantId : Tenants, roleId : {"rAdmin", ""},
   email : {"admin@demo", "ghost@x"}]

MaxTokenTime == JWT_EXPIRES_IN + PastExpiry

InitToken ==
  /\ now = 0
  /\ users = InitUsers
  /\ accounts = <<>>
  /\ auditLog = <<>>
  /\ permArgs = NoPermArgs
  /\ permOut = "none"
  /\ issued = NoneIssued
  /\ decoded = NoneDecoded
  /\ flight = NoFlight
  /\ listing = NoListing

CallGenerateToken ==
  \E claims \in ClaimSets :
    /\ issued' = [called |-> TRUE, claims |-> claims, at |-> now, token |-> generateToken(claims, now)]
    /\ decoded' = NoneDecoded
    /\ UNCHANGED <<now, users, accounts, auditLog, permIdle, flight, listing>>

CallVerifyToken ==
  /\ issued.called
  /\ decoded' = [called |-> TRUE, at |-> now, result |-> verifyToken(issued.token, now)]
  /\ UNCHANGED <<now, users, accounts, auditLog, permIdle, issued, flight, listing>>

TokenTick ==
  /\ now < MaxTokenTime
  /\ now' = now + 1
  /\ UNCHANGED <<users, accounts, auditLog, permIdle, tokenIdle, listing, flight>>

NextToken == CallGenerateToken \/ CallVerifyToken \/ TokenTick

SpecToken == InitToken /\ [][NextToken]_vars

\* The four claims of a decoded payload.
ClaimsOf(payload) ==
  [userId |-> payload.userId, tenantId |-> payload.tenantId, roleId |-> payload.roleId,
   email |-> payload.email]

HasVerified == decoded.called

\* C11 as stated: verifyToken(generateToken(claims)) called before expiry
\* returns claims equal to the claims given.
C11_RoundTripEqual ==
  (HasVerified /\ decoded.at < issued.at + JWT_EXPIRES_IN) =>
    /\ decoded.result.ok
    /\ decoded.result.payload = issued.claims

\* C11: verifyToken(generateToken(claims)) called before expiry returns a
\* payload whose userId, tenantId, roleId and email are those given, and which
\* carries besides them the issue time and the expiry the signer added.
C11_RoundTripKeepsClaims ==
  /\ (HasVerified /\ decoded.at < issued.at + JWT_EXPIRES_IN) =>
       /\ decoded.result.ok
       /\ ClaimsOf(decoded.result.payload) = issued.claims
       /\ decoded.result.payload.iat = issued.at
       /\ decoded.result.payload.exp = issued.at + JWT_EXPIRES_IN
       /\ DOMAIN decoded.result.payload = DOMAIN issued.claims \cup {"iat", "exp"}
  /\ \A claims \in ClaimSets :
       LET r == verifyToken(generateToken(claims, now), now)
       IN  r.ok /\ ClaimsOf(r.payload) = claims /\ r.payload # claims

\* A token naming no stored user has been issued and verified before its expiry.
C11_Witness ==
  /\ HasVerified
  /\ decoded.at < issued.at + JWT_EXPIRES_IN
  /\ decoded.result.ok
  /\ issued.claims.userId = "u9"

\* Times at which a token may be presented.
TokenTimes == 0..(MaxTokenTime + 1)

Accepted(token, at) == verifyToken(token, at).ok

\* C12: a token issued at t with lifetime L is accepted at every time up to
\* t + L - 1 and rejected at every time from t + L (so from t + L + 1) on;
\* once rejected for expiry it is rejected at every later time.
C12_ExpiryBoundary ==
  /\ HasVerified =>
       /\ decoded.at <= issued.at + JWT_EXPIRES_IN - 1 => decoded.result.ok
       /\ decoded.at >= issued.at + JWT_EXPIRES_IN =>
            decoded.result = [ok |-> FALSE, error |-> "Invalid or expired token",
                              payload |-> NoPayload]
  /\ issued.called =>
       /\ \A at \in TokenTimes :
            /\ (issued.at <= at /\ at <= issued.at + JWT_EXPIRES_IN - 1) =>
                 Accepted(issued.token, at)
            /\ at >= issued.at + JWT_EXPIRES_IN + 1 => ~Accepted(issued.token, at)
       /\ \A t1 \in TokenTimes, t2 \in TokenTimes :
            (issued.at <= t1 /\ t1 <= t2 /\ ~Accepted(issued.token, t1)) =>
              ~Accepted(issued.token, t2)

\* A token has been rejected one second or more after its lifetime ended,
\* and the same token was acceptable one second before it ended.
C12_Witness ==
  /\ HasVerified
  /\ decoded.at >= issued.at + JWT_EXPIRES_IN + 1
  /\ ~decoded.result.ok
  /\ Accepted(issued.token, issued.at + JWT_EXPIRES_IN - 1)

(***************************************************************************)
(* Properties of the audit recorder and of the handlers that use it.       *)
(***************************************************************************)
\* The store's write of the entry fails: the store is down or refuses the row.
WriteFails(entry, storeUp) == auditLogCreate(AuditRow(entry), auditLog, storeUp).threw

\* C13: createAuditLog completes normally for every entry and every failure
\* of the audit store, and a failed write leaves the audit log as it was.
C13_AuditFailureSwallowed ==
  LET swallowed(entry) ==
        \A storeUp \in BOOLEAN :
          LET res == createAuditLog(entry, auditLog, storeUp)
          IN  /\ ~res.threw
              /\ WriteFails(entry, storeUp) => res.log = auditLog
              /\ ~WriteFails(entry, storeUp) => res.log = Append(auditLog, AuditRow(entry))
  IN  /\ \A r \in POSTRequests :
           LET out == HandlePOST(r.header, r.body, r.client, r.fault)
           IN  \A i \in 1..Len(out.handed) : swallowed(out.handed[i])
      /\ \A r \in LoginRequests :
           \A out \in HandleLogin(r.body, r.client, r.fault) :
             \A i \in 1..Len(out.handed) : swallowed(out.handed[i])

\* With entries already in the log, a write fails for an unreachable store
\* and another for a row the table refuses, and the log stays as it is.
C13_Witness ==
  /\ Len(auditLog) >= 1
  /\ \E r \in LoginRequests :
       \E out \in HandleLogin(r.body, r.client, r.fault) :
         /\ Len(out.handed) = 1
         /\ WriteFails(out.handed[1], TRUE)
         /\ createAuditLog(out.handed[1], auditLog, TRUE).log = auditLog
  /\ \E r \in POSTRequests :
       LET out == HandlePOST(r.header, r.body, r.client, r.fault)
       IN  /\ Len(out.handed) = 1
           /\ ~WriteFails(out.handed[1], TRUE)
           /\ createAuditLog(out.handed[1], auditLog, FALSE).log = auditLog

\* A login's response and the users table after it, for each outcome.
LoginResults(body, client, fault) ==
  {[resp |-> out.resp, users |-> out.users] : out \in HandleLogin(body, client, fault)}

\* C14: with the audit store unavailable POST /api/accounts answers as it
\* does with the store available, 201 with the account, and the account is
\* in the accounts table; a login answers as it does with the store
\* available, the token or 401.
C14_AuditOutageHarmless ==
  /\ \A r \in POSTRequests :
       LET up == HandlePOST(r.header, r.body, r.client, NoFault)
           down == HandlePOST(r.header, r.body, r.client, AuditFault)
       IN  /\ down.resp = up.resp
           /\ down.accounts = up.accounts
           /\ down.auditLog = auditLog
           /\ up.resp.status = 201 =>
                /\ down.resp.status = 201
                /\ down.accounts = Append(accounts, down.resp.account)
  /\ \A r \in LoginRequests :
       /\ LoginResults(r.body, r.client, AuditFault) = LoginResults(r.body, r.client, NoFault)
       /\ \A out \in HandleLogin(r.body, r.client, AuditFault) :
            /\ out.auditLog = auditLog
            /\ out.handed # <<>> => out.resp.status \in {200, 401}
            /\ out.resp.status = 200 <=> out.resp.token.kind = "jwt"

\* An account created while the audit store was down is in the table with
\* no entry for it, and a login would succeed now with the store down.
C14_Witness ==
  /\ \E i \in 1..Len(accounts) :
       \A k \in 1..Len(auditLog) : auditLog[k].action # "CREATE"
  /\ \E r \in LoginRequests :
       \E out \in HandleLogin(r.body, r.client, AuditFault) : out.resp.status = 200
  /\ \E r \in LoginRequests :
       \E out \in HandleLogin(r.body, r.client, AuditFault) : out.resp.status = 401

AppendsAtMostOne(before, after) ==
  /\ Len(after) <= Len(before) + 1
  /\ SubSeq(after, 1, Len(before)) = before

\* C17: over login, list and create operations the audit log only grows at
\* its end: no operation changes or removes an entry, and one operation
\* appends at most one entry.
C17_AppendOnly ==
  /\ [](/\ \A r \in POSTRequests :
            AppendsAtMostOne(auditLog,
                             HandlePOST(r.header, r.body, r.client, r.fault).auditLog)
        /\ \A r \in LoginRequests :
             \A out \in HandleLogin(r.body, r.client, r.fault) :
               AppendsAtMostOne(auditLog, out.auditLog))
  /\ [][AppendsAtMostOne(auditLog, auditLog')]_vars

\* A login entry is followed by the entry of a create.
C17_Witness ==
  /\ Len(auditLog) = 2
  /\ auditLog[1].action = "LOGIN_SUCCESS"
  /\ auditLog[2].action = "CREATE"

\* C18 as stated: every entry handed to the recorder carries the id of a
\* real tenant, an action, a resource type and the caller's network
\* metadata, and lacks the actor only when it is a failed-login entry.
C18_EntryPopulated ==
  LET populated(entry) ==
        /\ entry.tenantId \in Tenants
        /\ entry.action \in {"CREATE", "LOGIN_SUCCESS", "LOGIN_FAILED"}
        /\ entry.resourceType \in {"account", "user"}
        /\ entry.ipAddress # ""
        /\ entry.userAgent # ""
        /\ entry.userId = NULL => entry.action = "LOGIN_FAILED"
  IN  /\ \A r \in POSTRequests :
           LET out == HandlePOST(r.header, r.body, r.client, r.fault)
           IN  \A i \in 1..Len(out.handed) : populated(out.handed[i])
      /\ \A r \in LoginRequests :
           \A out \in HandleLogin(r.body, r.client, r.fault) :
             \A i \in 1..Len(out.handed) : populated(out.handed[i])

(***************************************************************************)
(* One request to POST /api/accounts or to the login endpoint, handled     *)
(* step by step as its handler's awaits order it: the work up to the call  *)
(* of createAuditLog, the audit write, the response.  The client may go    *)
(* away at any time; the handlers do not look at request.signal.           *)
(***************************************************************************)
\* What is left of the handler after its work up to createAuditLog: an
\* entry handed over means the audit write has been started.
AfterWork(kind, out) ==
  [pc |-> IF out.handed = <<>> THEN "respond" ELSE "auditing", kind |-> kind,
   entry |-> out.handed, pending |-> out.resp.status, status |-> 0, clientGone |-> FALSE]

\* POST /api/accounts up to `await createAuditLog(...)`.
BeginCreate ==
  /\ flight.pc = "idle"
  /\ \E r \in POSTRequests :
       LET out == HandlePOST(r.header, r.body, r.client, r.fault)
       IN  /\ r.fault.at # "audit"
           /\ Len(out.accounts) <= MaxAccounts
           /\ accounts' = out.accounts
           /\ flight' = AfterWork("create", out)
  /\ UNCHANGED <<now, users, auditLog, permIdle, tokenIdle, listing>>

\* POST /api/auth/login up to `await createAuditLog(...)`.
BeginLogin ==
  /\ flight.pc = "idle"
  /\ \E r \in LoginRequests :
       \E out \in HandleLogin(r.body, r.client, r.fault) :
         /\ r.fault.at # "audit"
         /\ users' = out.users
         /\ flight' = AfterWork("login", out)
  /\ UNCHANGED <<now, accounts, auditLog, permIdle, tokenIdle, listing>>

\* The awaited createAuditLog settles, with the store up or down.
AuditSettles ==
  /\ flight.pc = "auditing"
  /\ \E storeUp \in BOOLEAN :
       LET log == createAuditLog(flight.entry[1], auditLog, storeUp).log
       IN  /\ Len(log) <= MaxAudit
           /\ auditLog' = log
  /\ flight' = [flight EXCEPT !.pc = "respond"]
  /\ UNCHANGED <<now, users, accounts, permIdle, tokenIdle, listing>>

\* return NextResponse.json(...)
Respond ==
  /\ flight.pc = "respond"
  /\ flight' = [flight EXCEPT !.pc = "done", !.status = flight.pending]
  /\ UNCHANGED <<now, users, accounts, auditLog, permIdle, tokenIdle, listing>>

\* The client aborts the request; nothing in the handler observes it.
ClientAbort ==
  /\ flight.pc \in {"auditing", "respond"}
  /\ ~flight.clientGone
  /\ flight' = [flight EXCEPT !.clientGone = TRUE]
  /\ UNCHANGED <<now, users, accounts, auditLog, permIdle, tokenIdle, listing>>

Finish ==
  /\ flight.pc = "done"
  /\ flight' = NoFlight
  /\ UNCHANGED <<now, users, accounts, auditLog, permIdle, tokenIdle, listing>>

NextFlight ==
  BeginCreate \/ BeginLogin \/ AuditSettles \/ Respond \/ ClientAbort \/ Finish

SpecFlight == Init /\ [][NextFlight]_vars

\* C15 as stated: while the audit write of a request is pending its
\* response can be produced, and the write goes on when the client has
\* aborted the request.
C15_FireAndForget ==
  flight.pc = "auditing" =>
    /\ ENABLED Respond
    /\ flight.clientGone => ENABLED AuditSettles

(***************************************************************************)
(* Properties of the tenant-scoping layer.                                 *)
(***************************************************************************)
\* Base query descriptors a caller may pass to withTenantFilter.
BaseQueries ==
  {[where |-> w, orderBy |-> "createdAt", include |-> "owner"] : w \in BaseFilters}

\* The filter admits only active rows of the tenant, by its keys and on the
\* rows of the accounts table.
ScopesTo(where, tenantId) ==
  /\ "tenantId" \in DOMAIN where /\ where.tenantId = tenantId
  /\ "isActive" \in DOMAIN where /\ where.isActive = TRUE
  /\ \A row \in Rows(accounts) :
       Matches(row, where) => (row.tenantId = tenantId /\ row.isActive)

\* C19 as stated: every descriptor withTenantFilter and paginate produce
\* constrains to the tenant given and to active rows, whatever the base
\* filter carries, and keeps every other key of the base query.
C19_ScopedAndActive ==
  \A t \in Tenants :
    /\ \A q \in BaseQueries :
         LET out == withTenantFilter(t, q)
         IN  /\ ScopesTo(out.where, t)
             /\ out.orderBy = q.orderBy /\ out.include = q.include
             /\ \A k \in DOMAIN q.where \ {"tenantId", "isActive"} :
                  out.where[k] = q.where[k]
    /\ \A w \in BaseFilters : ScopesTo(ScopedWhere(w, t), t)

\* The limits a caller may ask for: none, 0, a negative one, and some
\* within and above the maximum.
LimitParams == {NaN, Num(0), Num(-1), Num(1), Num(2), Num(101)}

\* C20 as stated: for every limit asked for, paginate uses a limit within
\* [1,100], reports that limit in meta and returns at most that many rows.
C20_LimitClamped ==
  \A t \in Tenants, lim \in LimitParams, pg \in {NaN, Num(1), Num(2)} :
    LET out == paginate(accounts, [page |-> pg, limit |-> lim,
                                   where |-> [k \in {} |-> TRUE], orderBy |-> NULL], t)
    IN  \A res \in out.results :
          /\ res.meta.limit \in 1..MaxLimit
          /\ Len(res.data) <= res.meta.limit
          /\ (~lim.nan /\ lim.val \in 1..MaxLimit) => res.meta.limit = lim.val

(***************************************************************************)
(* paginate step by step.  Promise.all starts findMany and count as two    *)
(* queries of the store; each reads the store as it is when it runs, in    *)
(* either order, and creates and soft deletes of other requests may run    *)
(* between them.                                                           *)
(***************************************************************************)
MaxRows == 4

\* A row of the accounts table written before the clock of the model starts
\* (negative time), last updated at `updated`.
Acct(id, tenantId, created, updated) ==
  [NoAccount EXCEPT !.id = id, !.tenantId = tenantId,
                    !.ownerId = IF tenantId = "tA" THEN "u1" ELSE "u2",
                    !.name = <<"A">>, !.accountType = "prospect", !.isActive = TRUE,
                    !.createdAt = created, !.updatedAt = updated]

\* The accounts table when the server starts: empty, or holding rows of both
\* tenants, one of them updated after a younger row was created.
InitTables ==
  {<<>>, <<Acct(1, "tA", -3, -1), Acct(2, "tB", -3, -3), Acct(3, "tA", -2, -2)>>}

\* The calls of paginate: all defaults, a second page, an ordering given, and
\* a negative page.
ListParams ==
  {NoListParams,
   [NoListParams EXCEPT !.page = Num(2), !.limit = Num(1)],
   [NoListParams EXCEPT !.page = Num(2), !.limit = Num(3), !.orderBy = "updatedAt"],
   [NoListParams EXCEPT !.page = Num(-1)]}

InitList ==
  /\ now = 0
  /\ users = InitUsers
  /\ accounts \in InitTables
  /\ auditLog = <<>>
  /\ permArgs = NoPermArgs
  /\ permOut = "none"
  /\ issued = NoneIssued
  /\ decoded = NoneDecoded
  /\ flight = NoFlight
  /\ listing = NoListing

listIdle == <<now, users, auditLog, permIdle, tokenIdle, flight>>

\* paginate is called.
BeginList ==
  /\ listing.pc = "idle"
  /\ \E params \in ListParams, tenantId \in Tenants :
       listing' = [NoListing EXCEPT !.pc = "reading", !.params = params,
                                    !.tenantId = tenantId]
  /\ UNCHANGED <<accounts, listIdle>>

ListWhere == ScopedWhere(listing.params.where, listing.tenantId)

\* model.findMany({where, orderBy, skip, take}) runs; its rejection rejects
\* the Promise.all.
ReadRows ==
  /\ listing.pc = "reading" /\ ~listing.rowsRead
  /\ LET found == findMany(accounts, ListWhere, OrderKey(listing.params),
                           Skip(listing.params), EffectiveLimit(listing.params))
     IN  IF found.threw
           THEN listing' = [listing EXCEPT !.pc = "done", !.threw = TRUE]
         ELSE \E d \in found.results :
                listing' = [listing EXCEPT !.rowsRead = TRUE, !.data = d,
                                           !.seen = count(accounts, ListWhere)]
  /\ UNCHANGED <<accounts, listIdle>>

\* model.count({where}) runs.
ReadCount ==
  /\ listing.pc = "reading" /\ ~listing.countRead
  /\ listing' = [listing EXCEPT !.countRead = TRUE, !.total = count(accounts, ListWhere)]
  /\ UNCHANGED <<accounts, listIdle>>

\* Both queries have answered: paginate returns {data, meta}.
ReturnPage ==
  /\ listing.pc = "reading" /\ listing.rowsRead /\ listing.countRead
  /\ listing' = [listing EXCEPT !.pc = "done"]
  /\ UNCHANGED <<accounts, listIdle>>

\* The caller has taken the result.
EndList ==
  /\ listing.pc = "done"
  /\ listing' = NoListing
  /\ UNCHANGED <<accounts, listIdle>>

\* prisma.account.create of another request (POST /api/accounts), by a user
\* of either tenant.
CreateAccount ==
  \E u \in UserIds :
    /\ Len(accounts) < MaxRows
    /\ accounts' =
         Append(accounts,
                NewAccount(parseBody([NoBody EXCEPT !.json = TRUE, !.name = <<"B">>]).data,
                           users[u], Len(accounts) + 1, now))
    /\ UNCHANGED <<listIdle, listing>>

NextList ==
  \/ BeginList \/ ReadRows \/ ReadCount \/ ReturnPage \/ EndList
  \/ CreateAccount \/ softDeleteAccount

SpecList == InitList /\ [][NextList]_vars

\* What paginate returns when listing.pc = "done".
ListingMeta ==
  PageMeta(EffectivePage(listing.params), EffectiveLimit(listing.params), listing.total)
(***************************************************************************)
(* Page arithmetic.                                                        *)
(***************************************************************************)
Max(a, b) == IF a >= b THEN a ELSE b

\* The least number of pages of `limit` rows that hold `total` rows.
PagesFor(total, limit) == CHOOSE k \in 0..total : k * limit >= total /\ (k - 1) * limit < total

PageNumbers == {Num(1), Num(2), Num(3)}
PositiveLimits == {NaN, Num(1), Num(2), Num(3)}

\* C21: for every total >= 0, page >= 1 and limit within [1,100], paginate
\* reports totalPages = ceil(total / limit), hasNext = (page < totalPages)
\* and hasPrev = (page > 1), and the page holds
\* min(limit, max(0, total - (page - 1) * limit)) rows; page 3 with limit 10
\* over 25 rows holds 5 rows of 3 pages, with no next and a previous page.
\* The calls are made on every table of accounts the store comes to hold (a
\* call in progress does not change the table).
C21_PageMeta ==
  /\ listing.pc = "idle" =>
       \A t \in Tenants, pg \in PageNumbers, lim \in PositiveLimits :
         LET params == [NoListParams EXCEPT !.page = pg, !.limit = lim]
             out == paginate(accounts, params, t)
             total == count(accounts, ScopedWhere(params.where, t))
             limit == IF lim.nan THEN DefaultLimit ELSE lim.val
         IN  /\ ~out.threw /\ out.results # {}
             /\ \A res \in out.results :
                  /\ res.meta.page = pg.val /\ res.meta.limit = limit
                  /\ res.meta.total = total
                  /\ res.meta.totalPages = PagesFor(total, limit)
                  /\ res.meta.hasNext = (pg.val < PagesFor(total, limit))
                  /\ res.meta.hasPrev = (pg.val > 1)
                  /\ Len(res.data) = Min(limit, Max(0, total - (pg.val - 1) * limit))
  /\ PageMeta(3, 10, 25) =
       [page |-> 3, limit |-> 10, total |-> 25, totalPages |-> 3, hasNext |-> FALSE,
        hasPrev |-> TRUE]
  /\ Len(Window([i \in 1..25 |-> i], (3 - 1) * 10, 10)) = 5

\* Tenant tA has three active rows and its page 2 of limit 2 is the last,
\* partly filled page.
C21_Witness ==
  /\ count(accounts, ScopedWhere(NoListParams.where, "tA")) = 3
  /\ \E res \in paginate(accounts, [NoListParams EXCEPT !.page = Num(2), !.limit = Num(2)],
                         "tA").results :
       /\ Len(res.data) = 1 /\ res.meta.total = 3 /\ res.meta.totalPages = 2
       /\ ~res.meta.hasNext /\ res.meta.hasPrev
(***************************************************************************)
(* Ordering.                                                               *)
(***************************************************************************)
\* The rows come most recent first by `key`.
OrderedDesc(data, key) ==
  \A i, j \in 1..Len(data) : i < j => data[i][key] >= data[j][key]

\* A caller-supplied ordering is the one the rows come in.
SuppliedOrderUsed ==
  \A t \in Tenants, key \in {"createdAt", "updatedAt"} :
    \A res \in paginate(accounts, [NoListParams EXCEPT !.orderBy = key], t).results :
      OrderedDesc(res.data, key)

\* C22 as stated: with no ordering supplied paginate returns the rows
\* most-recently-updated first, and a caller-supplied ordering replaces that
\* default.
C22_DefaultMostRecentlyUpdated ==
  listing.pc = "idle" =>
    /\ \A t \in Tenants :
         \A res \in paginate(accounts, NoListParams, t).results :
           OrderedDesc(res.data, "updatedAt")
    /\ SuppliedOrderUsed
(***************************************************************************)
(* Unexpected failures.                                                    *)
(***************************************************************************)
\* The store calls of a handler that fail after the request was
\* authenticated and validated, with the text of the error.
StoreFailures == {f \in Faults : f.at = "data"}

Generic500(resp) == resp.status = 500 /\ resp.error = "Internal server error"

\* C23 as stated: a failure of the store in GET /api/accounts, in
\* POST /api/accounts or in the login handler, whatever the text of its error,
\* is answered with HTTP 500 'Internal server error': the text neither shows
\* in the body nor changes the status.
C23_UnexpectedFailureIs500 ==
  /\ \A h \in ValidHeaders, q \in Queries, f \in StoreFailures :
       \A resp \in HandleGET(h, q, f) : Generic500(resp)
  /\ \A h \in ValidHeaders, b \in {x \in Bodies : x.json /\ parseBody(x).ok},
        c \in ClientMeta, f \in StoreFailures :
       Generic500(HandlePOST(h, b, c, f).resp)
  /\ \A r \in LoginRequests :
       (parseLogin(r.body) /\ r.fault.at \in {"userLookup", "data"}) =>
         \A out \in HandleLogin(r.body, r.client, r.fault) :
           /\ out.resp.status \in {401, 500}
           /\ out.resp.status = 401 => out.resp.error = "Invalid credentials"
           /\ out.resp.status = 500 => Generic500(out.resp)
           /\ r.fault.at = "userLookup" => out.resp.status = 500
(***************************************************************************)
(* Login, on the users tables the schema admits: the e-mail is unique      *)
(* within a tenant only, and the password hash may be absent.              *)
(***************************************************************************)
UserTables ==
  {InitUsers,
   [InitUsers EXCEPT !["u2"].passwordHash = hashPassword("pw1")],
   [InitUsers EXCEPT !["u2"].email = "nobody@demo", !["u2"].passwordHash = hashPassword("pw1")],
   [InitUsers EXCEPT !["u2"].email = "nobody@demo", !["u2"].passwordHash = <<>>]}

InitLogin ==
  /\ now = 0
  /\ users \in UserTables
  /\ accounts = <<>>
  /\ auditLog = <<>>
  /\ permArgs = NoPermArgs
  /\ permOut = "none"
  /\ issued = NoneIssued
  /\ decoded = NoneDecoded
  /\ flight = NoFlight
  /\ listing = NoListing

NextLogin == Login \/ softDeleteUser \/ Tick

SpecLogin == InitLogin /\ [][NextLogin]_vars
\* The bodies loginSchema accepts.
ParsedLogins == {b \in LoginBodies : b.json /\ parseLogin(b)}

\* u is an active user with that e-mail whose stored hash verifies the password.
Verifies(u, email, password) ==
  /\ users[u].isActive /\ users[u].email = email
  /\ users[u].passwordHash # <<>> /\ verifyPassword(password, users[u].passwordHash)

\* The token of a login carries the id, tenant, role and e-mail of user u.
TokenNames(token, u) ==
  LET payload == verifyToken(token, now).payload
  IN  /\ verifyToken(token, now).ok
      /\ payload.userId = u /\ payload.tenantId = users[u].tenantId
      /\ payload.roleId = (IF users[u].roleId = NULL THEN "" ELSE users[u].roleId)
      /\ payload.email = users[u].email

\* No two active users share an e-mail.
ActiveEmailsUnique ==
  \A u, v \in UserIds :
    (users[u].isActive /\ users[v].isActive /\ users[u].email = users[v].email) => u = v

\* A token is returned only for a user the credentials verify, and names
\* that user; without such a user the login is answered 401 'Invalid
\* credentials', the same for every reason.
TokenOnlyForValidCredentials ==
  /\ \A b \in ParsedLogins :
       \A res \in authenticateUser(b.email, b.password, users, now) :
         /\ res.ok => \E u \in UserIds : /\ Verifies(u, b.email, b.password)
                                         /\ res.user.id = u
                                         /\ res.user.tenantId = users[u].tenantId
                                         /\ TokenNames(res.token, u)
         /\ ~res.ok => res.token = NoHeader /\ res.user = NoUser
  /\ \A b \in ParsedLogins, c \in LoginClients :
       \A out \in HandleLogin(b, c, NoFault) :
         /\ out.resp.status \in {200, 401}
         /\ out.resp.status = 401 =>
              out.resp = [NoLoginResponse EXCEPT
                            !.status = 401, !.error = "Invalid credentials",
                            !.steps = <<"json", "parse", "authenticateUser", "audit">>]
         /\ (~\E u \in UserIds : Verifies(u, b.email, b.password)) => out.resp.status = 401

\* authenticateUser answers a token when and only when some user verifies.
TokenExactlyWhenVerified ==
  \A b \in ParsedLogins :
    \A res \in authenticateUser(b.email, b.password, users, now) :
      res.ok <=> \E u \in UserIds : Verifies(u, b.email, b.password)

LiveTokensOf(u) ==
  {h \in Headers(now) : /\ TokenGood(h) /\ h.payload.userId = u
                        /\ h.payload.tenantId = users[u].tenantId}

\* A deactivated user's live tokens name no user, the handlers refuse them
\* and write nothing, and no login returns that user.
DeactivatedIsRejected ==
  \A u \in UserIds :
    ~users[u].isActive =>
      /\ \A h \in LiveTokensOf(u) :
           /\ getUserByToken(h, users, now, TRUE) = NoUser
           /\ \A resp \in HandleGET(h, NoQuery, NoFault) :
                resp.status = 401 /\ resp.data = <<>>
           /\ \A b \in Bodies, c \in ClientMeta :
                LET out == HandlePOST(h, b, c, NoFault)
                IN  /\ out.resp.status \notin {200, 201}
                    /\ out.accounts = accounts /\ out.auditLog = auditLog
      /\ \A b \in ParsedLogins, c \in LoginClients :
           \A out \in HandleLogin(b, c, NoFault) :
             out.resp.user # u /\ out.users[u] = users[u]

StaysInactive == \A u \in UserIds : ~users[u].isActive => ~users'[u].isActive

\* C25: once a user's isActive is false, every later request that presents a
\* token issued to that user is rejected, though its signature and expiry
\* are valid, and the user can log in no more.
C25_DeactivationRevokes == []DeactivatedIsRejected /\ [][StaysInactive]_vars

\* A user logged in, was deactivated afterwards, and the token of that login
\* is still good.
C25_Witness ==
  \E u \in UserIds :
    /\ ~users[u].isActive /\ users[u].lastLogin >= 0
    /\ \E h \in LiveTokensOf(u) : h.exp = users[u].lastLogin + JWT_EXPIRES_IN
(***************************************************************************)
(* Consistency of a page with the store.                                   *)
(***************************************************************************)
\* The count is that of the state the rows were read from.
TotalOfRowsState == listing.total = listing.seen

RowsWithinTotal == Len(listing.data) <= Max(0, listing.total - Skip(listing.params))

NoNextAfterShortPage ==
  Len(listing.data) < EffectiveLimit(listing.params) => ~ListingMeta.hasNext

\* The same three, for paginate with both reads on one state of the store.
ConsistentOnOneState ==
  \A params \in ListParams, t \in Tenants :
    \A res \in paginate(accounts, params, t).results :
      /\ res.meta.total = count(accounts, ScopedWhere(params.where, t))
      /\ Len(res.data) <= Max(0, res.meta.total - Skip(params))
      /\ Len(res.data) < EffectiveLimit(params) => ~res.meta.hasNext

\* C26 as stated: paginate reads the rows and the count as two concurrent
\* queries, and with creations and soft deletes of other requests between
\* them what it returns is still consistent with one state of the store:
\* meta.total is the number of matching rows of the state the rows were read
\* from, the rows returned are at most total - skip, and hasNext is false on
\* a page that is not full.
C26_PageConsistentUnderWrites ==
  (listing.pc = "done" /\ ~listing.threw) =>
    TotalOfRowsState /\ RowsWithinTotal /\ NoNextAfterShortPage
(***************************************************************************)
(* Soft delete.                                                            *)
(***************************************************************************)
Without(data, id) == SelectSeq(data, LAMBDA row : row.id # id)

\* softDelete(accounts, id, tenantId), for every id and tenant: what it
\* writes and what the listings show afterwards.
SoftDeleteFrame ==
  \A id \in 1..MaxRows, t \in Tenants :
    LET out == softDelete(accounts, id, t)
        hit == id \in DOMAIN accounts /\ accounts[id].tenantId = t
    IN  /\ Len(out.table) = Len(accounts)
        /\ \A i \in DOMAIN accounts : (i # id \/ ~hit) => out.table[i] = accounts[i]
        /\ ~hit => out.threw
        /\ hit => /\ ~out.threw
                  /\ out.table[id] = [accounts[id] EXCEPT !.isActive = FALSE]
                  /\ \A params \in ListParams, t2 \in Tenants :
                       LET before == paginate(accounts, params, t2)
                           after == paginate(out.table, params, t2)
                       IN  /\ after.threw = before.threw
                           /\ \A res \in after.results :
                                \A i \in 1..Len(res.data) : res.data[i].id # id
                           /\ Matching(out.table, ScopedWhere(params.where, t2)) =
                                Matching(accounts, ScopedWhere(params.where, t2))
                                  \ {accounts[id]}
                           /\ params = NoListParams =>
                                {res.data : res \in after.results} =
                                  {Without(res.data, id) : res \in before.results}

RowsKept ==
  /\ Len(accounts') >= Len(accounts)
  /\ \A i \in DOMAIN accounts :
       /\ accounts'[i].id = accounts[i].id
       /\ accounts'[i].tenantId = accounts[i].tenantId

\* C27: softDelete(model, id, tenantId) marks inactive only the row whose id
\* and tenant both match; called with the id of another tenant's row it
\* leaves that row unchanged; no row is ever removed; and after the call
\* every paginate listing of the tenant leaves the row out while all other
\* rows are listed as before.
C27_SoftDeleteFrame ==
  [](listing.pc = "idle" => SoftDeleteFrame) /\ [][RowsKept]_vars

\* A row of tenant tA has been soft-deleted beside an active row of tA and an
\* active row of tenant tB.
C27_Witness ==
  \E i, j, k \in DOMAIN accounts :
    /\ accounts[i].tenantId = "tA" /\ ~accounts[i].isActive
    /\ accounts[j].tenantId = "tA" /\ accounts[j].isActive
    /\ accounts[k].tenantId = "tB" /\ accounts[k].isActive
(***************************************************************************)
(* The page parameter.                                                     *)
(***************************************************************************)
\* The values of the page query parameter: absent, non-numeric, zero,
\* negative and positive.
PageStrings == {"", "abc", "0", "-1", "2"}

\* What paginate is given for a page query value (route.ts: parseInt(page || '1')).
PageParamsOf(pg) ==
  [NoListParams EXCEPT !.page = parseInt(IF pg = "" THEN "1" ELSE pg),
                       !.limit = Num(10), !.orderBy = "updatedAt"]

\* The page is effective from 1 on, the skip is not negative, and GET
\* answers with meta.page and hasPrev of the effective page.
PageSane(pg) ==
  LET params == PageParamsOf(pg)
  IN  /\ EffectivePage(params) >= 1
      /\ Skip(params) >= 0
      /\ \A h \in ValidHeaders :
           \A resp \in HandleGET(h, [NoQuery EXCEPT !.page = pg], NoFault) :
             /\ resp.status = 200
             /\ resp.meta.page = EffectivePage(params)
             /\ resp.meta.hasPrev = (EffectivePage(params) > 1)

\* C28 as stated: for every page query value (absent, non-numeric, 0,
\* negative, positive) the effective page is an integer >= 1 and the skip is
\* >= 0, and meta.page and hasPrev are those of the effective page.
C28_PageAtLeastOne == \A pg \in PageStrings : PageSane(pg)
(***************************************************************************)
(* Login and the users of other tenants.                                   *)
(***************************************************************************)
\* The logins in which user u presents their own e-mail and password.
OwnLogins(u) == {b \in ParsedLogins : Verifies(u, b.email, b.password)}

\* Every login of an active user with their own password answers 200 with
\* a token for that user's id and tenant.
OwnPasswordLogsIn ==
  \A u \in UserIds :
    \A b \in OwnLogins(u), c \in LoginClients :
      \A out \in HandleLogin(b, c, NoFault) :
        /\ out.resp.status = 200
        /\ out.resp.user = u /\ out.resp.tenantId = users[u].tenantId
        /\ TokenNames(out.resp.token, u)

\* A login that is refused writes no user row.
FailedLoginWritesNoUser ==
  \A b \in LoginBodies, c \in LoginClients :
    \A out \in HandleLogin(b, c, NoFault) :
      out.resp.status # 200 => out.users = users

\* C29 as stated: an active user who presents their own correct password is
\* always logged in and receives a token for their own id and tenant,
\* whether or not a user of another tenant has the same e-mail, and a failed
\* login changes no user record.
C29_LoginIndependentOfOtherTenants == OwnPasswordLogsIn /\ FailedLoginWritesNoUser
====
